---- MODULE Spec2Model ----
(***************************************************************************)
(* A model of ml_mr/estimation/quantile_iv.py: the exposure quantile       *)
(* models (ExposureQuantileMLP, ExposureNMQN), OutcomeMLP.forward and the  *)
(* two-stage orchestrator fit_quantile_iv.                                 *)
(*                                                                         *)
(* Real numbers are exact rationals [num, den] (a quantile level) or       *)
(* integers (weights, plug-in values); a network's parameters are an       *)
(* abstract version number that every optimisation step changes.           *)
(*                                                                         *)
(* Four specifications share the module:                                   *)
(*   Spec         fit_quantile_iv, one action per stage of the function    *)
(*   SpecCtor     the constructors of the two exposure models              *)
(*   SpecNMQN     ExposureNMQN.forward and ExposureNMQN.l1_penalty_vec     *)
(*   SpecForward  OutcomeMLP.forward                                       *)
(***************************************************************************)
EXTENDS Integers, Sequences, FiniteSets, TLC

VARIABLES
    \* fit_quantile_iv
    cfg,                \* the arguments of the call
    pc,                 \* position in fit_quantile_iv
    error,              \* the exception that ended the call, or None
    log,                \* the calls and returns so far, in order
    files,              \* the output directory: file name -> content
    meta,               \* the meta dictionary
    splits,             \* train/val datasets of both stages
    exposure_model,     \* the in-memory model train_exposure_model trains
    exposure_class,     \* type(model) returned by train_exposure_model
    exposure_network,   \* the network reloaded from exposure_network.ckpt
    outcome_model,      \* the in-memory model train_outcome_model trains
    outcome_network,    \* the network reloaded from outcome_network.ckpt
    estimator,          \* the QuantileIVEstimator returned
    trainer,            \* train_model's arguments, epoch and best loss
    \* constructors
    ctor_args,          \* the arguments of the last constructor call
    net,                \* the object it returned, or None
    ctor_error,         \* the exception it raised, or None
    \* ExposureNMQN.forward / l1_penalty_vec
    nmqn,               \* an ExposureNMQN with its deltas weight matrix
    nmqn_out,           \* the last forward or penalty call and its result
    \* OutcomeMLP.forward
    fw,                 \* the frame of one forward call
    \* inference
    reloaded,           \* what QuantileIVEstimator.from_results returned
    lin,                \* a QuantileIVLinearEstimator
    lin_out,            \* the last query of it and its result
    eff,                \* a call of effect on an estimator
    feed                \* a batch and what the exposure network was fed

fitVars == <<cfg, pc, error, log, files, meta, splits, exposure_model,
             exposure_class, exposure_network, outcome_model,
             outcome_network, estimator, trainer>>
ctorVars == <<ctor_args, net, ctor_error>>
nmqnVars == <<nmqn, nmqn_out>>
fwVars == <<fw>>
inferVars == <<reloaded, lin, lin_out, eff, feed>>
vars == <<fitVars, ctorVars, nmqnVars, fwVars, inferVars>>

None == "None"

\* An object that does not exist (yet): every object is a record with a cls.
Absent == [cls |-> None]

IsAbsent(o) == o.cls = None

\* Optional[float]: <<>> is None, <<v>> is the value v.
NoValue == <<>>

Some(v) == <<v>>

----------------------------------------------------------------------------
(* Bounds of the model *)

MaxQuantiles == 6       \* n_quantiles ranges over 0..MaxQuantiles (SpecCtor)
MaxHiddenLen == 3       \* hidden has at most this many widths (SpecCtor)
MaxWidth == 2           \* a hidden width is in 1..MaxWidth (SpecCtor)
MaxFitQuantiles == 3    \* n_quantiles ranges over 2..MaxFitQuantiles (Spec)
MaxEpochs == 2          \* max_epochs of both stages (Spec)
MaxLoss == 2            \* a monitored validation loss is in 1..MaxLoss (Spec)
MaxExog == 2            \* input_size ranges over 1..MaxExog (SpecCtor)
MaxWeight == 1          \* an entry of deltas.weight is in -MaxWeight..MaxWeight
Scale == 2              \* a bounded representation value is k/Scale, 0<k<Scale
MaxBatch == 2           \* a batch has 1..MaxBatch samples (SpecForward)
MaxValue == 1           \* an instrument or covariate is in 0..MaxValue
MaxCoef == 2            \* a network coefficient is in 1..MaxCoef (SpecForward)
MaxQuery == 11          \* a query exposure x is in 0..MaxQuery (SpecEffect)
MaxExposure == 1        \* an exposure x is in 0..MaxExposure (SpecLinear)
MaxColumns == 2         \* instruments, covariables: 0..MaxColumns (SpecInput)

(* Program constants *)

MinQuantiles == 3       \* assert n_quantiles >= 3
MinHidden == 2          \* assert len(hidden) >= 2
DefaultPenLambda == 1   \* DEFAULTS["nmqn_penalty_lambda"]
SignaturePenLambda == 1 \* ExposureNMQN.__init__(..., pen_lambda: float = 1)
DefaultAlpha == 10      \* alpha: float = 0.1, in percent

----------------------------------------------------------------------------
(* Helpers *)

Rat(n, d) == [num |-> n, den |-> d]

RatLess(a, b) == a.num * b.den < b.num * a.den

RatEq(a, b) == a.num * b.den = b.num * a.den

RatAdd(a, b) == Rat(a.num * b.den + b.num * a.den, a.den * b.den)

Last(s) == s[Len(s)]

ButLast(s) == SubSeq(s, 1, Len(s) - 1)

Raised(exc) == [cls |-> exc]

IsRaised(r) ==
    r.cls \in {"AssertionError", "AttributeError", "TypeError",
               "RuntimeError", "NotImplementedError", "LinAlgError"}

----------------------------------------------------------------------------
(* The exposure models' constructors *)

\* [(2 * k - 1) / (2 * n_quantiles) for k in range(1, n_quantiles + 1)]
QuantileLevels_RangeFromZero(n_quantiles) ==
    [k \in 1..n_quantiles |-> Rat(2 * (k - 1) - 1, 2 * n_quantiles)]

QuantileLevels(n_quantiles) ==
    [k \in 1..n_quantiles |-> Rat(2 * k - 1, 2 * n_quantiles)]

\* MLP.__init__ (utils.models): the feed-forward module built from the
\* input width, the hidden widths and the output width.
MLP(input_size, hidden, out) ==
    [input_size |-> input_size, hidden |-> hidden, out |-> out,
     final |-> "Linear"]

ExposureQuantileMLP_NoAssert(n_quantiles, input_size, hidden) ==
    [cls |-> "ExposureQuantileMLP",
     quantiles |-> QuantileLevels(n_quantiles),
     mlp |-> MLP(input_size, hidden, n_quantiles),
     deltas |-> Absent,
     pen_lambda |-> NoValue]

ExposureQuantileMLP(n_quantiles, input_size, hidden) ==
    IF ~(n_quantiles >= MinQuantiles)
    THEN Raised("AssertionError")
    ELSE [cls |-> "ExposureQuantileMLP",
          quantiles |-> QuantileLevels(n_quantiles),
          mlp |-> MLP(input_size, hidden, n_quantiles),
          deltas |-> Absent,
          pen_lambda |-> NoValue]

ExposureNMQN_NoHiddenAssert(n_quantiles, input_size, hidden, pen_lambda) ==
    IF ~(n_quantiles >= MinQuantiles)
    THEN Raised("AssertionError")
    ELSE [cls |-> "ExposureNMQN",
          quantiles |-> QuantileLevels(n_quantiles),
          mlp |-> [MLP(input_size, hidden,
                       IF hidden = <<>> THEN 0 ELSE Last(hidden))
                   EXCEPT !.final = "Sigmoid"],
          deltas |-> [in_features |->
                          (IF hidden = <<>> THEN 0 ELSE Last(hidden)) + 1,
                      out_features |-> n_quantiles],
          pen_lambda |-> Some(pen_lambda)]

ExposureNMQN(n_quantiles, input_size, hidden, pen_lambda) ==
    IF ~(n_quantiles >= MinQuantiles)
    THEN Raised("AssertionError")
    ELSE IF ~(Len(hidden) >= MinHidden)
    THEN Raised("AssertionError")
    ELSE [cls |-> "ExposureNMQN",
          quantiles |-> QuantileLevels(n_quantiles),
          \* super().__init__(hidden=hidden[:-1], out=hidden[-1]) and
          \* self.mlp.append(nn.Sigmoid())
          mlp |-> [MLP(input_size, ButLast(hidden), Last(hidden))
                   EXCEPT !.final = "Sigmoid"],
          \* nn.Linear(hidden[-1] + 1, n_quantiles, bias=False)
          deltas |-> [in_features |-> Last(hidden) + 1,
                      out_features |-> n_quantiles],
          pen_lambda |-> Some(pen_lambda)]

----------------------------------------------------------------------------
(* fit_quantile_iv *)

\* The dataset argument: one instrument, and two covariables or none.
Stage1Dataset ==
    [name |-> "dataset",
     n_exog |-> IF cfg.covariables THEN 3 ELSE 1,
     covariable_labels |-> IF cfg.covariables THEN <<"age", "sex">>
                           ELSE <<>>]

Stage2Dataset(kind) ==
    [name |-> "stage2_dataset",
     n_exog |-> IF kind = "same_labels" THEN Stage1Dataset.n_exog ELSE 3,
     covariable_labels |-> IF kind = "same_labels"
                           THEN Stage1Dataset.covariable_labels
                           ELSE <<"age", "bmi">>]

FitConfigs ==
    [n_quantiles : (MinQuantiles - 1)..MaxFitQuantiles,
     nmqn : BOOLEAN,
     nmqn_penalty_lambda : {NoValue, Some(DefaultPenLambda)},
     exposure_hidden : {<<64>>, <<128, 64>>},
     activation : {"GELU", "Threshold", "NoSuchActivation"},
     fast : BOOLEAN,
     resample : BOOLEAN,
     covariables : BOOLEAN,
     \* keyword arguments passed that the signature (lines 586-612) lacks
     extra_kwargs : {{}, {"conformal_score"}},
     stage2 : {"none", "same_labels", "other_labels"}]

\* getattr(nn, activation_str): raises AttributeError unless torch.nn has
\* an attribute of that name.
TorchNNHasAttr(name) == name \in {"GELU", "Threshold"}

\* activation_cls(): raises TypeError for a class whose constructor needs
\* arguments (nn.Threshold(threshold, value)).
TorchNNInstantiable(name) == name \in {"GELU"}

\* resample_dataset(dataset) when resample is set
Resampled(c, ds) ==
    IF c.resample THEN [ds EXCEPT !.name = "resampled_" \o ds.name] ELSE ds

\* random_split(dataset, [1 - validation_proportion, validation_proportion]):
\* every call draws a new random partition, so the subsets of the call-th
\* call are objects distinct from those of any other call.
RandomSplit(ds, call) ==
    [train |-> <<ds.name, "train", call>>, val |-> <<ds.name, "val", call>>]

\* meta = dict(locals()) and the entries added and deleted after it
MetaOf(c) ==
    [model |-> "quantile_iv",
     n_quantiles |-> c.n_quantiles,
     nmqn |-> c.nmqn,
     nmqn_penalty_lambda |-> c.nmqn_penalty_lambda,
     exposure_hidden |-> c.exposure_hidden,
     activation |-> c.activation,
     fast |-> c.fast,
     resample |-> c.resample,
     covariable_labels |-> Stage1Dataset.covariable_labels,
     exposure_val_loss |-> NoValue,
     outcome_val_loss |-> NoValue]

\* dataset.save_covariables(output_dir): the covariables tensor is written
\* to covariables.pt and returned; a dataset without covariables writes no
\* file and returns None.
SaveCovariables(ds) ==
    IF ds.covariable_labels = <<>> THEN Absent ELSE [cls |-> "covars"]

NoFiles ==
    [f \in {"output_dir", "covariables.pt", "exposure_network.ckpt",
            "exposure_model_predictions.png", "outcome_network.ckpt",
            "meta.json", "causal_estimates"} |-> Absent]

\* A freshly constructed LightningModule: randomly initialised parameters
\* (version 0), trainable, in training mode, on the CPU.
NewModule(m) ==
    [net |-> m, params |-> 0, requires_grad |-> TRUE, training |-> TRUE,
     device |-> "cpu", origin |-> "constructed"]

\* cls.load_from_checkpoint(path): the class is instantiated from the saved
\* hyperparameters and the saved parameters are loaded into it.
LoadFromCheckpoint(cls, ckpt) ==
    [net |-> [ckpt.net EXCEPT !.cls = cls], params |-> ckpt.params,
     requires_grad |-> TRUE, training |-> TRUE, device |-> "cpu",
     origin |-> ckpt.file]

\* The assertion of line 653 left out.
CovariableLabelsAgree_Unchecked(ds1, ds2) == TRUE

\* assert dataset.covariable_labels == stage2_dataset.covariable_labels
CovariableLabelsAgree(ds1, ds2) ==
    ds1.covariable_labels = ds2.covariable_labels

\* lines 613-662: resampling, the activation lookup, the output directory,
\* the metadata, the covariables file and the train/validation splits.
FitStart ==
    /\ pc = "start"
    /\ IF cfg.extra_kwargs # {}
       THEN \* unexpected keyword argument
            /\ error' = "TypeError"
            /\ pc' = "failed"
            /\ UNCHANGED <<files, meta, splits>>
       ELSE IF ~TorchNNHasAttr(cfg.activation)
       THEN /\ error' = "AttributeError"
            /\ pc' = "failed"
            /\ UNCHANGED <<files, meta, splits>>
       ELSE IF ~TorchNNInstantiable(cfg.activation)
       THEN /\ error' = "TypeError"
            /\ pc' = "failed"
            /\ UNCHANGED <<files, meta, splits>>
       ELSE LET ds1 == Resampled(cfg, Stage1Dataset)
                s1 == RandomSplit(ds1, 1)
            IN  /\ files' = [files EXCEPT !["output_dir"] = [cls |-> "dir"],
                                          !["covariables.pt"] =
                                              SaveCovariables(ds1)]
                /\ meta' = MetaOf(cfg)
                /\ IF cfg.stage2 = "none"
                   THEN /\ splits' = [stage1 |-> s1, stage2 |-> s1]
                        /\ pc' = "train_exposure"
                        /\ error' = error
                   ELSE LET ds2 == Resampled(cfg, Stage2Dataset(cfg.stage2))
                        IN  IF ~CovariableLabelsAgree(ds1, ds2)
                            THEN /\ error' = "AssertionError"
                                 /\ pc' = "failed"
                                 /\ splits' = [stage1 |-> s1, stage2 |-> Absent]
                            ELSE /\ splits' = [stage1 |-> s1,
                                               stage2 |-> RandomSplit(ds2, 2)]
                                 /\ pc' = "train_exposure"
                                 /\ error' = error
    /\ UNCHANGED <<cfg, log, exposure_model, exposure_class,
                   exposure_network, outcome_model, outcome_network,
                   estimator, trainer>>
    /\ UNCHANGED <<ctorVars, nmqnVars, fwVars, inferVars>>

\* nmqn_penalty_lambda=nmqn_penalty_lambda if nmqn else None (line 679)
PenLambdaArg(c) == IF c.nmqn THEN c.nmqn_penalty_lambda ELSE NoValue

\* train_exposure_model, lines 506-524: the model it constructs
BuildExposureModel(c) ==
    IF PenLambdaArg(c) = NoValue
    THEN ExposureQuantileMLP(c.n_quantiles, Stage1Dataset.n_exog,
                             c.exposure_hidden)
    ELSE ExposureNMQN(c.n_quantiles, Stage1Dataset.n_exog,
                      c.exposure_hidden, PenLambdaArg(c)[1])

\* The call of train_exposure_model up to its call of train_model.
TrainExposureCall ==
    /\ pc = "train_exposure"
    /\ LET model == BuildExposureModel(cfg)
       IN  IF IsRaised(model)
           THEN /\ error' = model.cls
                /\ pc' = "failed"
                /\ UNCHANGED <<log, exposure_model, trainer>>
           ELSE /\ exposure_model' = NewModule(model)
                /\ trainer' = [epoch |-> 0, best |-> NoValue,
                               train_dataset |-> splits.stage1.train,
                               val_dataset |-> splits.stage1.val,
                               monitored_metric |-> "exposure_val_loss",
                               checkpoint_filename |->
                                   "exposure_network.ckpt"]
                /\ log' = Append(log, "train_model:exposure")
                /\ pc' = "fit_exposure"
                /\ error' = error
    /\ UNCHANGED <<cfg, files, meta, splits, exposure_class,
                   exposure_network, outcome_model, outcome_network,
                   estimator>>
    /\ UNCHANGED <<ctorVars, nmqnVars, fwVars, inferVars>>

\* train_model (utils.training): one epoch. Every trainable parameter of the
\* model changes; the checkpoint file is rewritten when the monitored
\* validation loss improves on the best one so far.
Improves(loss) == trainer.best = NoValue \/ loss < trainer.best[1]

Checkpoint(file, m) ==
    [cls |-> "ckpt", file |-> file, net |-> m.net, params |-> m.params]

ExposureEpoch ==
    /\ pc = "fit_exposure"
    /\ trainer.epoch < MaxEpochs
    /\ \E loss \in 1..MaxLoss :
         LET trained == [exposure_model EXCEPT !.params = @ + 1,
                                               !.device = "accelerator"]
         IN  /\ exposure_model' = trained
             /\ trainer' = [trainer EXCEPT
                              !.epoch = @ + 1,
                              !.best = IF Improves(loss) THEN Some(loss)
                                       ELSE @]
             /\ files' = IF Improves(loss)
                         THEN [files EXCEPT !["exposure_network.ckpt"] =
                                 Checkpoint("exposure_network.ckpt", trained)]
                         ELSE files
    /\ UNCHANGED <<cfg, pc, error, log, meta, splits, exposure_class,
                   exposure_network, outcome_model, outcome_network,
                   estimator>>
    /\ UNCHANGED <<ctorVars, nmqnVars, fwVars, inferVars>>

\* train_model returns (early stopping or max_epochs) and so does
\* train_exposure_model: type(model) and the best monitored loss.
TrainExposureReturn_StraightToOutcome ==
    /\ pc = "fit_exposure"
    /\ trainer.epoch >= 1
    /\ exposure_class' = exposure_model.net.cls
    /\ exposure_network' = exposure_model
    /\ meta' = [meta EXCEPT !.exposure_val_loss = trainer.best]
    /\ log' = Append(log, "train_exposure_return")
    /\ pc' = "train_outcome"
    /\ UNCHANGED <<cfg, error, files, splits, exposure_model,
                   outcome_model, outcome_network, estimator, trainer>>
    /\ UNCHANGED <<ctorVars, nmqnVars, fwVars, inferVars>>

TrainExposureReturn ==
    /\ pc = "fit_exposure"
    /\ trainer.epoch >= 1
    /\ exposure_class' = exposure_model.net.cls
    /\ meta' = [meta EXCEPT !.exposure_val_loss = trainer.best]
    /\ log' = Append(log, "train_exposure_return")
    /\ pc' = "load_exposure"
    /\ UNCHANGED <<cfg, error, files, splits, exposure_model,
                   exposure_network, outcome_model, outcome_network,
                   estimator, trainer>>
    /\ UNCHANGED <<ctorVars, nmqnVars, fwVars, inferVars>>

\* Stage 2 continuing with the model object that train_model was given,
\* as the last epoch left it.
LoadExposure_InMemory ==
    /\ pc = "load_exposure"
    /\ exposure_network' =
         [exposure_model EXCEPT !.device = "cpu", !.training = FALSE]
    /\ log' = Append(log, "load_exposure")
    /\ pc' = "freeze"
    /\ UNCHANGED <<cfg, error, files, meta, splits, exposure_model,
                   exposure_class, outcome_model, outcome_network,
                   estimator, trainer>>
    /\ UNCHANGED <<ctorVars, nmqnVars, fwVars, inferVars>>

\* lines 684-686: exposure_class.load_from_checkpoint(...).to(cpu).eval()
LoadExposure ==
    /\ pc = "load_exposure"
    /\ exposure_network' =
         [LoadFromCheckpoint(exposure_class, files["exposure_network.ckpt"])
          EXCEPT !.device = "cpu", !.training = FALSE]
    /\ log' = Append(log, "load_exposure")
    /\ pc' = "freeze"
    /\ UNCHANGED <<cfg, error, files, meta, splits, exposure_model,
                   exposure_class, outcome_model, outcome_network,
                   estimator, trainer>>
    /\ UNCHANGED <<ctorVars, nmqnVars, fwVars, inferVars>>

\* line 688: exposure_network.freeze() (requires_grad = False on every
\* parameter, and eval mode)
FreezeExposure_Omitted ==
    /\ pc = "freeze"
    /\ log' = Append(log, "freeze")
    /\ pc' = IF cfg.fast THEN "train_outcome" ELSE "plot"
    /\ UNCHANGED <<cfg, error, files, meta, splits, exposure_model,
                   exposure_class, exposure_network, outcome_model,
                   outcome_network, estimator, trainer>>
    /\ UNCHANGED <<ctorVars, nmqnVars, fwVars, inferVars>>

FreezeExposure ==
    /\ pc = "freeze"
    /\ exposure_network' = [exposure_network EXCEPT !.requires_grad = FALSE,
                                                    !.training = FALSE]
    /\ log' = Append(log, "freeze")
    /\ pc' = IF cfg.fast THEN "train_outcome" ELSE "plot"
    /\ UNCHANGED <<cfg, error, files, meta, splits, exposure_model,
                   exposure_class, outcome_model, outcome_network,
                   estimator, trainer>>
    /\ UNCHANGED <<ctorVars, nmqnVars, fwVars, inferVars>>

\* lines 690-697: plot_exposure_model (under torch.no_grad) when not fast
PlotExposure ==
    /\ pc = "plot"
    /\ files' = [files EXCEPT !["exposure_model_predictions.png"] =
                             [cls |-> "png"]]
    /\ pc' = "train_outcome"
    /\ UNCHANGED <<cfg, error, log, meta, splits, exposure_model,
                   exposure_class, exposure_network, outcome_model,
                   outcome_network, estimator, trainer>>
    /\ UNCHANGED <<ctorVars, nmqnVars, fwVars, inferVars>>

\* train_outcome_model handed the stage-1 split whatever stage2_dataset is.
TrainOutcomeCall_Stage1Split ==
    /\ pc = "train_outcome"
    /\ outcome_model' =
         [NewModule([cls |-> "OutcomeMLP"])
          EXCEPT !.net = [cls |-> "OutcomeMLP",
                          exposure_network |-> exposure_network.origin,
                          train_dataset |-> splits.stage1.train,
                          val_dataset |-> splits.stage1.val]]
    /\ trainer' = [epoch |-> 0, best |-> NoValue,
                   train_dataset |-> splits.stage1.train,
                   val_dataset |-> splits.stage1.val,
                   monitored_metric |-> "outcome_val_loss",
                   checkpoint_filename |-> "outcome_network.ckpt"]
    /\ log' = Append(log, "train_model:outcome")
    /\ pc' = "fit_outcome"
    /\ UNCHANGED <<cfg, error, files, meta, splits, exposure_model,
                   exposure_class, exposure_network, outcome_network,
                   estimator>>
    /\ UNCHANGED <<ctorVars, nmqnVars, fwVars, inferVars>>

\* The call of train_outcome_model up to its call of train_model: the
\* OutcomeMLP holds the exposure network it is given (the same object).
TrainOutcomeCall ==
    /\ pc = "train_outcome"
    /\ outcome_model' =
         [NewModule([cls |-> "OutcomeMLP"])
          EXCEPT !.net = [cls |-> "OutcomeMLP",
                          exposure_network |-> exposure_network.origin,
                          train_dataset |-> splits.stage2.train,
                          val_dataset |-> splits.stage2.val]]
    /\ trainer' = [epoch |-> 0, best |-> NoValue,
                   train_dataset |-> splits.stage2.train,
                   val_dataset |-> splits.stage2.val,
                   monitored_metric |-> "outcome_val_loss",
                   checkpoint_filename |-> "outcome_network.ckpt"]
    /\ log' = Append(log, "train_model:outcome")
    /\ pc' = "fit_outcome"
    /\ UNCHANGED <<cfg, error, files, meta, splits, exposure_model,
                   exposure_class, exposure_network, outcome_network,
                   estimator>>
    /\ UNCHANGED <<ctorVars, nmqnVars, fwVars, inferVars>>

\* train_model on the outcome model: one epoch. The exposure network is a
\* sub-module of the model being trained: it moves to the accelerator with
\* it, and its parameters change only if they require gradients.
TrainedSubmodule(m) ==
    [m EXCEPT !.params = IF m.requires_grad THEN @ + 1 ELSE @,
              !.device = "accelerator"]

OutcomeEpoch ==
    /\ pc = "fit_outcome"
    /\ trainer.epoch < MaxEpochs
    /\ \E loss \in 1..MaxLoss :
         LET trained == [outcome_model EXCEPT !.params = @ + 1,
                                              !.device = "accelerator"]
         IN  /\ outcome_model' = trained
             /\ exposure_network' = TrainedSubmodule(exposure_network)
             /\ trainer' = [trainer EXCEPT
                              !.epoch = @ + 1,
                              !.best = IF Improves(loss) THEN Some(loss)
                                       ELSE @]
             /\ files' = IF Improves(loss)
                         THEN [files EXCEPT !["outcome_network.ckpt"] =
                                 Checkpoint("outcome_network.ckpt", trained)]
                         ELSE files
    /\ UNCHANGED <<cfg, pc, error, log, meta, splits, exposure_model,
                   exposure_class, outcome_network, estimator>>
    /\ UNCHANGED <<ctorVars, nmqnVars, fwVars, inferVars>>

TrainOutcomeReturn ==
    /\ pc = "fit_outcome"
    /\ trainer.epoch >= 1
    /\ meta' = [meta EXCEPT !.outcome_val_loss = trainer.best]
    /\ log' = Append(log, "train_outcome_return")
    /\ pc' = "load_outcome"
    /\ UNCHANGED <<cfg, error, files, splits, exposure_model,
                   exposure_class, exposure_network, outcome_model,
                   outcome_network, estimator, trainer>>
    /\ UNCHANGED <<ctorVars, nmqnVars, fwVars, inferVars>>

\* lines 718-725: outcome_class.load_from_checkpoint(..., exposure_network=
\* exposure_network).eval().to(cpu), then exposure_network.to(its device)
LoadOutcome ==
    /\ pc = "load_outcome"
    /\ LET loaded ==
             [LoadFromCheckpoint(outcome_model.net.cls,
                                 files["outcome_network.ckpt"])
              EXCEPT !.training = FALSE, !.device = "cpu"]
       IN  /\ outcome_network' = loaded
           /\ exposure_network' =
                [exposure_network EXCEPT !.device = loaded.device]
    /\ log' = Append(log, "load_outcome")
    /\ pc' = "make_estimator"
    /\ UNCHANGED <<cfg, error, files, meta, splits, exposure_model,
                   exposure_class, outcome_model, estimator, trainer>>
    /\ UNCHANGED <<ctorVars, nmqnVars, fwVars, inferVars>>

\* lines 727-734: the QuantileIVEstimator and meta.json
MakeEstimator ==
    /\ pc = "make_estimator"
    /\ estimator' = [cls |-> "QuantileIVEstimator",
                     exposure_network |-> exposure_network.origin,
                     outcome_network |-> outcome_network.origin,
                     meta |-> meta,
                     covars |-> files["covariables.pt"]]
    /\ files' = [files EXCEPT !["meta.json"] =
                             [cls |-> "json", data |-> meta]]
    /\ log' = log \o <<"estimator", "meta.json">>
    /\ pc' = IF cfg.fast THEN "ready" ELSE "save_stats"
    /\ UNCHANGED <<cfg, error, meta, splits, exposure_model,
                   exposure_class, exposure_network, outcome_model,
                   outcome_network, trainer>>
    /\ UNCHANGED <<ctorVars, nmqnVars, fwVars, inferVars>>

\* lines 736-754: save_estimator_statistics when not fast, then return
SaveStatistics ==
    /\ pc = "save_stats"
    /\ files' = [files EXCEPT !["causal_estimates"] = [cls |-> "csv"]]
    /\ pc' = "ready"
    /\ UNCHANGED <<cfg, error, log, meta, splits, exposure_model,
                   exposure_class, exposure_network, outcome_model,
                   outcome_network, estimator, trainer>>
    /\ UNCHANGED <<ctorVars, nmqnVars, fwVars, inferVars>>

----------------------------------------------------------------------------
(* QuantileIVEstimator.from_results on the directory a fit has written *)

\* The constructor arguments a checkpoint of an exposure model holds
\* (save_hyperparameters).
HyperParameters(m) ==
    [n_quantiles |-> Len(m.quantiles),
     input_size |-> m.mlp.input_size,
     hidden |-> IF m.cls = "ExposureNMQN"
                THEN Append(m.mlp.hidden, m.mlp.out)
                ELSE m.mlp.hidden,
     pen_lambda |-> m.pen_lambda]

\* exposure_net_cls.load_from_checkpoint(path, map_location=cpu): the class
\* is instantiated from the saved hyperparameters (an argument the
\* checkpoint lacks takes its default), then the saved state dict is loaded
\* strictly, which raises RuntimeError when the parameters of the new
\* module are not those that were saved.
LoadExposureCheckpoint(cls, ckpt) ==
    LET hp == HyperParameters(ckpt.net)
        module ==
            IF cls = "ExposureNMQN"
            THEN ExposureNMQN(hp.n_quantiles, hp.input_size, hp.hidden,
                              IF hp.pen_lambda = NoValue
                              THEN SignaturePenLambda
                              ELSE hp.pen_lambda[1])
            ELSE ExposureQuantileMLP(hp.n_quantiles, hp.input_size,
                                     hp.hidden)
    IN  IF IsRaised(module) THEN module
        ELSE IF module.mlp # ckpt.net.mlp \/ module.deltas # ckpt.net.deltas
        THEN Raised("RuntimeError")
        ELSE [cls |-> "module", net |-> module, params |-> ckpt.params,
              requires_grad |-> TRUE, training |-> TRUE, device |-> "cpu",
              origin |-> ckpt.file]

\* meta.get("nmqn", False)
ExposureNetCls(meta_json) ==
    IF "nmqn" \in DOMAIN meta_json /\ meta_json.nmqn
    THEN "ExposureNMQN" ELSE "ExposureQuantileMLP"

\* lines 264-292, called on output_dir after fit_quantile_iv has returned
FromResults ==
    /\ pc = "ready"
    /\ IsAbsent(reloaded)
    /\ LET meta_json == files["meta.json"].data
           \* torch.load, FileNotFoundError caught: covars = None
           covars == files["covariables.pt"]
           exposure ==
               LoadExposureCheckpoint(ExposureNetCls(meta_json),
                                      files["exposure_network.ckpt"])
           outcome ==
               [LoadFromCheckpoint("OutcomeMLP",
                                   files["outcome_network.ckpt"])
                EXCEPT !.training = FALSE]
       IN  reloaded' =
               IF IsRaised(exposure) THEN exposure
               ELSE [cls |-> "QuantileIVEstimator",
                     exposure_network |-> exposure,
                     outcome_network |-> outcome,
                     meta |-> meta_json,
                     covars |-> covars]
    /\ UNCHANGED <<fitVars, ctorVars, nmqnVars, fwVars, lin, lin_out, eff,
                   feed>>

IdleFit ==
    /\ cfg = Absent /\ pc = "idle" /\ error = None /\ log = <<>>
    /\ files = NoFiles /\ meta = Absent /\ splits = Absent
    /\ exposure_model = Absent /\ exposure_class = None
    /\ exposure_network = Absent /\ outcome_model = Absent
    /\ outcome_network = Absent /\ estimator = Absent
    /\ trainer = [epoch |-> 0, best |-> NoValue]

IdleCtor == ctor_args = Absent /\ net = Absent /\ ctor_error = None

IdleNMQN == nmqn = Absent /\ nmqn_out = Absent

IdleForward == fw = Absent

IdleInfer ==
    /\ reloaded = Absent /\ lin = Absent /\ lin_out = Absent
    /\ eff = Absent /\ feed = Absent

Init ==
    /\ cfg \in FitConfigs
    /\ pc = "start" /\ error = None /\ log = <<>>
    /\ files = NoFiles /\ meta = Absent /\ splits = Absent
    /\ exposure_model = Absent /\ exposure_class = None
    /\ exposure_network = Absent /\ outcome_model = Absent
    /\ outcome_network = Absent /\ estimator = Absent
    /\ trainer = [epoch |-> 0, best |-> NoValue]
    /\ IdleCtor /\ IdleNMQN /\ IdleForward /\ IdleInfer

Next ==
    \/ FitStart
    \/ TrainExposureCall
    \/ ExposureEpoch
    \/ TrainExposureReturn
    \/ LoadExposure
    \/ FreezeExposure
    \/ PlotExposure
    \/ TrainOutcomeCall
    \/ OutcomeEpoch
    \/ TrainOutcomeReturn
    \/ LoadOutcome
    \/ MakeEstimator
    \/ SaveStatistics
    \/ FromResults

Spec == Init /\ [][Next]_vars

----------------------------------------------------------------------------
(* Properties of fit_quantile_iv *)

\* The position of event e in the log, 0 when it has not happened.
Index(e) ==
    IF \E i \in DOMAIN log : log[i] = e
    THEN CHOOSE i \in DOMAIN log : log[i] = e
    ELSE 0

Happened(e) == Index(e) > 0

\* C2: the stages run in the order FitExposure -> FreezeExposure ->
\* FitOutcome -> Ready. Outcome training is never entered before exposure
\* training has returned and the exposure network has been reloaded from
\* its checkpoint and frozen; the estimator and meta.json exist only after
\* outcome training has returned.
C2_StageOrder ==
    /\ Happened("train_model:outcome") =>
         /\ Happened("train_model:exposure")
         /\ Index("train_model:exposure") < Index("train_exposure_return")
         /\ Index("train_exposure_return") < Index("load_exposure")
         /\ Index("load_exposure") < Index("freeze")
         /\ Index("freeze") < Index("train_model:outcome")
    /\ pc = "fit_outcome" =>
         /\ exposure_network.origin = "exposure_network.ckpt"
         /\ ~exposure_network.requires_grad
    /\ (~IsAbsent(estimator) \/ ~IsAbsent(files["meta.json"])) =>
         /\ Happened("train_model:outcome")
         /\ Index("train_model:outcome") < Index("train_outcome_return")
         /\ Index("train_outcome_return") < Index("estimator")
         /\ Index("train_outcome_return") < Index("meta.json")
    /\ pc = "ready" => ~IsAbsent(estimator) /\ ~IsAbsent(files["meta.json"])

\* A fit that ran both stages and returned its estimator.
C2_Witness ==
    /\ pc = "ready"
    /\ ~IsAbsent(estimator)
    /\ Happened("freeze")
    /\ Happened("train_outcome_return")

\* The steps of fit_quantile_iv after exposure_network.freeze()
AfterFreeze ==
    pc \in {"plot", "train_outcome", "fit_outcome", "load_outcome",
            "make_estimator", "save_stats", "ready"}

\* C3: from the freeze of the reloaded exposure network until the call
\* returns no step changes the exposure network's parameters; stage-2
\* training is handed the frozen, eval-mode network, and an epoch of it
\* changes the outcome model's parameters only.
C3_ExposureFrozenInStage2 ==
    [][/\ AfterFreeze =>
            /\ exposure_network'.params = exposure_network.params
            /\ exposure_network'.net = exposure_network.net
            /\ ~exposure_network'.requires_grad
       /\ pc' = "fit_outcome" =>
            /\ ~exposure_network'.requires_grad
            /\ ~exposure_network'.training
            /\ outcome_model'.net.exposure_network = exposure_network'.origin
       /\ (pc = "fit_outcome" /\ trainer' # trainer) =>
            outcome_model'.params # outcome_model.params]_vars

\* Stage 2 has run to the end: the outcome model was trained for the
\* maximal number of epochs and the exposure network still holds the
\* parameters of its checkpoint.
C3_Witness ==
    /\ pc = "ready"
    /\ outcome_model.params = MaxEpochs
    /\ exposure_network.params = files["exposure_network.ckpt"].params

\* The configuration errors of a call of fit_quantile_iv.
ConfigError(c) ==
    \/ c.n_quantiles < MinQuantiles
    \/ c.nmqn /\ Len(c.exposure_hidden) < MinHidden
    \/ ~TorchNNHasAttr(c.activation)

\* C4: a call with a configuration error (n_quantiles < 3, the monotonic
\* variant with fewer than 2 hidden widths, an unknown activation name)
\* never invokes train_model.
C4_ConfigErrorFailsBeforeTraining ==
    ConfigError(cfg) =>
        /\ ~Happened("train_model:exposure")
        /\ ~Happened("train_model:outcome")
        /\ pc \in {"start", "train_exposure", "failed"}

----------------------------------------------------------------------------
(* The datasets of the two stages *)

\* The stages whose train_model call has the exposure model's arguments.
InStage1 == pc \in {"fit_exposure", "load_exposure", "freeze", "plot",
                    "train_outcome"}

\* The stages after train_model was called on the outcome model.
InStage2 == pc \in {"fit_outcome", "load_outcome", "make_estimator",
                    "save_stats", "ready"}

\* The subset `part` of the call-th random_split, taken of dataset ds.
IsSplitOf(subset, ds, part, call) ==
    subset = <<Resampled(cfg, ds).name, part, call>>

\* C11: with a stage-2 dataset, exposure training is given the train and
\* validation subsets of the split of the stage-1 dataset and outcome
\* training those of a split of the stage-2 dataset; without one, outcome
\* training is given the very subsets exposure training was given (the
\* first and only random_split).
C11_StageDatasets ==
    /\ InStage1 =>
         /\ trainer.monitored_metric = "exposure_val_loss"
         /\ IsSplitOf(trainer.train_dataset, Stage1Dataset, "train", 1)
         /\ IsSplitOf(trainer.val_dataset, Stage1Dataset, "val", 1)
         /\ trainer.train_dataset = splits.stage1.train
         /\ trainer.val_dataset = splits.stage1.val
    /\ InStage2 =>
         /\ trainer.monitored_metric = "outcome_val_loss"
         /\ outcome_model.net.train_dataset = trainer.train_dataset
         /\ outcome_model.net.val_dataset = trainer.val_dataset
         /\ IF cfg.stage2 = "none"
            THEN /\ trainer.train_dataset = splits.stage1.train
                 /\ trainer.val_dataset = splits.stage1.val
                 /\ IsSplitOf(trainer.train_dataset, Stage1Dataset,
                              "train", 1)
                 /\ IsSplitOf(trainer.val_dataset, Stage1Dataset, "val", 1)
            ELSE /\ IsSplitOf(trainer.train_dataset,
                              Stage2Dataset(cfg.stage2), "train", 2)
                 /\ IsSplitOf(trainer.val_dataset,
                              Stage2Dataset(cfg.stage2), "val", 2)
                 /\ trainer.train_dataset # splits.stage1.train
                 /\ trainer.val_dataset # splits.stage1.val

\* Outcome training is running on the split of a supplied stage-2 dataset.
C11_Witness ==
    /\ pc = "fit_outcome"
    /\ cfg.stage2 = "same_labels"
    /\ trainer.epoch >= 1
    /\ trainer.train_dataset[1] \in {"stage2_dataset",
                                     "resampled_stage2_dataset"}

\* C12: a call whose stage-2 dataset has other covariate labels than the
\* stage-1 dataset ends with an AssertionError (unless the argument binding
\* or the activation lookup has failed before it) and never invokes train_model for either stage; a
\* call that is in or past outcome training with a stage-2 dataset has the
\* same labels in both datasets.
C12_LabelMismatchFailsBeforeTraining ==
    /\ (cfg.stage2 # "none"
        /\ Stage2Dataset(cfg.stage2).covariable_labels
               # Stage1Dataset.covariable_labels) =>
         /\ pc \in {"start", "failed"}
         /\ ~Happened("train_model:exposure")
         /\ ~Happened("train_model:outcome")
         /\ IsAbsent(exposure_model) /\ IsAbsent(outcome_model)
         /\ (pc = "failed" /\ TorchNNInstantiable(cfg.activation)
                /\ cfg.extra_kwargs = {}) =>
                error = "AssertionError"
    /\ (InStage2 /\ cfg.stage2 # "none") =>
         Stage2Dataset(cfg.stage2).covariable_labels
             = Stage1Dataset.covariable_labels

\* A call with mismatching labels has failed on the assertion.
C12_Witness ==
    /\ cfg.stage2 = "other_labels"
    /\ pc = "failed"
    /\ error = "AssertionError"
    /\ ~IsAbsent(files["output_dir"])

----------------------------------------------------------------------------
(* Reloading a saved fit *)

\* C13: from_results on a results directory without covariables.pt returns
\* an estimator with covars None and with both networks loaded from their
\* checkpoints.
C13_NoCovariablesFileIsNoError ==
    (~IsAbsent(reloaded) /\ IsAbsent(files["covariables.pt"])) =>
        /\ reloaded.cls = "QuantileIVEstimator"
        /\ IsAbsent(reloaded.covars)
        /\ reloaded.exposure_network.origin = "exposure_network.ckpt"
        /\ reloaded.outcome_network.origin = "outcome_network.ckpt"

\* C17: the estimator from_results builds from the directory of a fit holds
\* an exposure network of the class that was trained, with the module and
\* the parameters exposure_network.ckpt holds.
C17_ReloadedVariantIsTrainedVariant ==
    ~IsAbsent(reloaded) =>
        /\ reloaded.cls = "QuantileIVEstimator"
        /\ reloaded.exposure_network.net.cls = exposure_class
        /\ reloaded.exposure_network.net
               = files["exposure_network.ckpt"].net
        /\ reloaded.exposure_network.params
               = files["exposure_network.ckpt"].params

\* C15: a fit for which calibration is requested runs a Calibrate step
\* after outcome training has returned and before it ends; a fit for which
\* it is not requested ends Ready with no Calibrate step and no calibration
\* adjustment in meta.json.
C15_CalibrateWhenRequested ==
    /\ (cfg.extra_kwargs # {} /\ pc \in {"ready", "failed"}) =>
         /\ Happened("calibrate")
         /\ Index("train_outcome_return") < Index("calibrate")
    /\ (cfg.extra_kwargs = {} /\ pc = "ready") =>
         /\ ~Happened("calibrate")
         /\ "q_hat" \notin DOMAIN files["meta.json"].data

----------------------------------------------------------------------------
(* The networks used after each stage *)

\* The module m is the one load_from_checkpoint made from the file.
IsReloadOf(m, file) ==
    /\ m.origin = file
    /\ ~IsAbsent(files[file])
    /\ m.net = files[file].net
    /\ m.params = files[file].params

\* C19: once stage 1 has returned, the exposure network that is frozen,
\* plotted, given to stage 2 and placed in the estimator is the reload of
\* exposure_network.ckpt; once stage 2 has returned, the outcome network
\* placed in the estimator is the reload of outcome_network.ckpt. Each file
\* holds the parameters of the epoch with the best monitored loss.
C19_BestCheckpointReloaded ==
    /\ pc \in {"freeze", "plot", "train_outcome", "fit_outcome",
               "load_outcome", "make_estimator", "save_stats", "ready"} =>
          IsReloadOf(exposure_network, "exposure_network.ckpt")
    /\ pc \in {"make_estimator", "save_stats", "ready"} =>
          IsReloadOf(outcome_network, "outcome_network.ckpt")
    /\ pc \in {"save_stats", "ready"} =>
          /\ estimator.exposure_network = "exposure_network.ckpt"
          /\ estimator.outcome_network = "outcome_network.ckpt"

\* A fit has returned whose last epoch of each stage was not the best one:
\* the in-memory models differ from the checkpoints.
C19_Witness ==
    /\ pc = "ready"
    /\ exposure_model.params # files["exposure_network.ckpt"].params
    /\ outcome_model.params # files["outcome_network.ckpt"].params
    /\ IsReloadOf(exposure_network, "exposure_network.ckpt")
    /\ IsReloadOf(outcome_network, "outcome_network.ckpt")

----------------------------------------------------------------------------
(* SpecCtor: one call of a constructor of the exposure models, with every  *)
(* n_quantiles in 0..MaxQuantiles and every list of hidden widths.         *)

HiddenLists == UNION {[1..k -> 1..MaxWidth] : k \in 0..MaxHiddenLen}

Returned(args, r) ==
    /\ ctor_args' = args
    /\ IF IsRaised(r)
       THEN net' = Absent /\ ctor_error' = r.cls
       ELSE net' = r /\ ctor_error' = None

NewExposureQuantileMLP ==
    /\ IsAbsent(ctor_args)
    /\ \E n \in 0..MaxQuantiles, i \in 1..MaxExog, h \in HiddenLists :
         Returned([cls |-> "ExposureQuantileMLP", n_quantiles |-> n,
                   input_size |-> i, hidden |-> h],
                  ExposureQuantileMLP(n, i, h))
    /\ UNCHANGED <<fitVars, nmqnVars, fwVars, inferVars>>

NewExposureNMQN ==
    /\ IsAbsent(ctor_args)
    /\ \E n \in 0..MaxQuantiles, i \in 1..MaxExog, h \in HiddenLists :
         Returned([cls |-> "ExposureNMQN", n_quantiles |-> n,
                   input_size |-> i, hidden |-> h],
                  ExposureNMQN(n, i, h, DefaultPenLambda))
    /\ UNCHANGED <<fitVars, nmqnVars, fwVars, inferVars>>

InitCtor == IdleFit /\ IdleCtor /\ IdleNMQN /\ IdleForward /\ IdleInfer

NextCtor == NewExposureQuantileMLP \/ NewExposureNMQN

SpecCtor == InitCtor /\ [][NextCtor]_vars

\* C1: a constructed exposure model (either variant) holds exactly
\* n_quantiles levels, level k is (2k-1)/(2n), every level lies strictly
\* inside (0,1), the levels increase strictly with k and are symmetric
\* about 0.5: level k + level n+1-k = 1.
C1_QuantileLevels ==
    ~IsAbsent(net) =>
        LET n == ctor_args.n_quantiles
            q == net.quantiles
        IN  /\ n >= 3
            /\ DOMAIN q = 1..n
            /\ \A k \in 1..n :
                 /\ q[k].den > 0
                 /\ RatEq(q[k], Rat(2 * k - 1, 2 * n))
                 /\ RatLess(Rat(0, 1), q[k])
                 /\ RatLess(q[k], Rat(1, 1))
                 /\ RatEq(RatAdd(q[k], q[n + 1 - k]), Rat(1, 1))
            /\ \A k \in 1..(n - 1) : RatLess(q[k], q[k + 1])

\* A monotonic model built with an even number of levels (no median level).
C1_Witness ==
    /\ ~IsAbsent(net)
    /\ net.cls = "ExposureNMQN"
    /\ Len(net.quantiles) = 4

\* C5: constructing either exposure model with n_quantiles < 3 fails, and
\* no model object with fewer than 3 quantile levels ever exists.
C5_FewerThanThreeQuantilesFails ==
    /\ (~IsAbsent(ctor_args) /\ ctor_args.n_quantiles < 3) =>
         ctor_error = "AssertionError" /\ IsAbsent(net)
    /\ ~IsAbsent(net) => Len(net.quantiles) >= 3

\* The unconstrained model's constructor was called with 2 quantiles and
\* raised.
C5_Witness ==
    /\ ~IsAbsent(ctor_args)
    /\ ctor_args.cls = "ExposureQuantileMLP"
    /\ ctor_args.n_quantiles = 2
    /\ ctor_error = "AssertionError"

\* C6: constructing ExposureNMQN with fewer than 2 hidden widths fails;
\* with 2 or more (and a valid n_quantiles) the last width is the size of
\* the bounded (sigmoid) representation, the widths before it are the
\* hidden layers, and deltas maps that representation plus an intercept
\* to the n_quantiles outputs.
C6_NMQNHiddenWidths ==
    (~IsAbsent(ctor_args) /\ ctor_args.cls = "ExposureNMQN") =>
        LET h == ctor_args.hidden
        IN  /\ Len(h) < 2 => ctor_error = "AssertionError" /\ IsAbsent(net)
            /\ (Len(h) >= 2 /\ ctor_args.n_quantiles >= 3) => ~IsAbsent(net)
            /\ ~IsAbsent(net) =>
                 /\ Len(h) >= 2
                 /\ net.mlp.out = h[Len(h)]
                 /\ net.mlp.final = "Sigmoid"
                 /\ Len(net.mlp.hidden) = Len(h) - 1
                 /\ \A i \in 1..(Len(h) - 1) : net.mlp.hidden[i] = h[i]
                 /\ net.deltas.in_features = h[Len(h)] + 1
                 /\ net.deltas.out_features = ctor_args.n_quantiles

\* An ExposureNMQN built from three widths, the last one the widest.
C6_Witness ==
    /\ ~IsAbsent(net)
    /\ net.cls = "ExposureNMQN"
    /\ ctor_args.hidden = <<1, 1, 2>>
    /\ net.mlp.hidden = <<1, 1>>

----------------------------------------------------------------------------
(* SpecNMQN: ExposureNMQN.forward and ExposureNMQN.l1_penalty_vec on a     *)
(* model whose deltas weight matrix (n_quantiles rows, hidden[-1] + 1      *)
(* columns, as nn.Linear stores it) holds arbitrary integers. A value v of *)
(* the bounded representation is the integer v * Scale, and so is every    *)
(* predicted quantile.                                                     *)

Max(a, b) == IF a >= b THEN a ELSE b

Abs(a) == IF a >= 0 THEN a ELSE -a

RECURSIVE SumSeq(_)
SumSeq(s) == IF s = <<>> THEN 0 ELSE s[1] + SumSeq(Tail(s))

\* torch.cumsum(self.deltas.weight, dim=1): along each row
Betas(weight) ==
    [q \in DOMAIN weight |->
        [j \in DOMAIN weight[q] |-> SumSeq(SubSeq(weight[q], 1, j))]]

\* ExposureNMQN.forward for one sample whose bounded representation is
\* mlp_out: hstack((ones, mlp_out)) @ betas.T
NMQNForwardValue(weight, mlp_out) ==
    LET x == <<Scale>> \o mlp_out
        betas == Betas(weight)
    IN  [q \in DOMAIN weight |->
            SumSeq([j \in DOMAIN x |-> x[j] * betas[q][j]])]

\* ExposureNMQN.l1_penalty_vec(d); rows and columns are counted from 1, so
\* d[1:, 1:] is rows 2.. and columns 2.., and d[0, 1:] is row 1.
L1PenaltyVec_AllRows(d) ==
    LET cols == 2..Len(d[1])
        M == [j \in cols |->
                SumSeq([q \in 1..Len(d) |-> Max(0, -d[q][j])])]
        d0_clipped == [j \in cols |-> Max(d[1][j], M[j])]
    IN  Rat(SumSeq([i \in 1..(Len(d[1]) - 1) |->
                       Abs(d[1][i + 1] - d0_clipped[i + 1])]),
            Len(d[1]) - 1)

L1PenaltyVec(d) ==
    LET cols == 2..Len(d[1])
        \* M = torch.sum(torch.max(torch.tensor(0), -d[1:, 1:]), dim=0)
        M == [j \in cols |->
                SumSeq([q \in 1..(Len(d) - 1) |-> Max(0, -d[q + 1][j])])]
        \* d0_clipped = torch.clip(d[0, 1:], min=M)
        d0_clipped == [j \in cols |-> Max(d[1][j], M[j])]
        \* penalty = torch.mean(torch.abs(d[0, 1:] - d0_clipped))
    IN  Rat(SumSeq([i \in 1..(Len(d[1]) - 1) |->
                       Abs(d[1][i + 1] - d0_clipped[i + 1])]),
            Len(d[1]) - 1)

\* deltas.weight of model m with entries drawn from the set values
WeightMatrices(m, values) ==
    [1..m.deltas.out_features -> [1..m.deltas.in_features -> values]]

\* The models of this specification have the smallest n_quantiles the
\* constructor accepts: one with a representation of one unit and entries
\* in -MaxWeight..MaxWeight, one with a representation of two units and
\* entries in {-1, 0, 1}.
NMQNModels ==
    LET narrow == ExposureNMQN(MinQuantiles, 2, <<2, 1>>, DefaultPenLambda)
        wide == ExposureNMQN(MinQuantiles, 2, <<2, 2>>, DefaultPenLambda)
    IN  {[cls |-> narrow.cls, net |-> narrow, weight |-> w] :
            w \in WeightMatrices(narrow, -MaxWeight..MaxWeight)}
        \cup
        {[cls |-> wide.cls, net |-> wide, weight |-> w] :
            w \in WeightMatrices(wide, {-1, 0, 1})}

InitNMQN ==
    /\ nmqn \in NMQNModels
    /\ nmqn_out = Absent
    /\ IdleFit /\ IdleCtor /\ IdleForward /\ IdleInfer

\* model.forward(x): the bounded representation of x is any point of
\* (0,1)^hidden[-1]
NMQNForward ==
    /\ \E mlp_out \in [1..nmqn.net.mlp.out -> 1..(Scale - 1)] :
         nmqn_out' = [cls |-> "forward", mlp_out |-> mlp_out,
                      qhat |-> NMQNForwardValue(nmqn.weight, mlp_out)]
    /\ UNCHANGED <<nmqn, fitVars, ctorVars, fwVars, inferVars>>

\* model.penalty()
NMQNPenalty ==
    /\ nmqn_out' = [cls |-> "penalty", value |-> L1PenaltyVec(nmqn.weight)]
    /\ UNCHANGED <<nmqn, fitVars, ctorVars, fwVars, inferVars>>

NextNMQN == NMQNForward \/ NMQNPenalty

SpecNMQN == InitNMQN /\ [][NextNMQN]_vars

NonNegative(weight) ==
    \A q \in DOMAIN weight : \A j \in DOMAIN weight[q] : weight[q][j] >= 0

\* C7: whenever every entry of the deltas weight matrix is nonnegative, the
\* quantiles forward predicts are nondecreasing in the quantile index, the
\* bounded representation being in (0,1).
C7_NonnegativeIncrementsMonotone ==
    (nmqn_out.cls = "forward" /\ NonNegative(nmqn.weight)) =>
        \A q \in 1..(Len(nmqn_out.qhat) - 1) :
            nmqn_out.qhat[q] <= nmqn_out.qhat[q + 1]

\* The total negative part of column j in the rows beyond the first.
NegativePart(weight, j) ==
    SumSeq([q \in 1..(Len(weight) - 1) |->
               IF weight[q + 1][j] < 0 THEN -weight[q + 1][j] ELSE 0])

----------------------------------------------------------------------------
(* SpecForward: one call of OutcomeMLP.forward(ivs, covars, taus) on a     *)
(* batch. ivs and covars hold one row per sample; covars and taus may be   *)
(* None.                                                                   *)

\* _cat (utils): the tensors that are not None and not empty, side by
\* side. None and the empty row are both <<>>.
Cat(a, b) == a \o b

\* self.exposure_network(input) for one row: n_q predicted quantiles
ExposureNetForward(e, row) ==
    [q \in 1..e.n_q |-> e.slope * SumSeq(row) + q]

\* self.mlp(input) for one row: the outcome sub-network, not linear in the
\* exposure
Mlp(o, row) == o.wx * row[1] * row[1] + o.wc * SumSeq(Tail(row))

TauSamples == {Rat(1, 4), Rat(3, 4)}

ForwardCalls ==
    UNION {
        [cls : {"OutcomeMLP.forward"},
         pc : {"call"},
         sqr : BOOLEAN,
         exposure_network : [n_q : {MinQuantiles}, slope : 1..MaxCoef],
         mlp : [wx : 1..MaxCoef, wc : {1}],
         ivs : [1..n -> [1..1 -> 0..MaxValue]],
         covars : {NoValue} \cup [1..n -> [1..1 -> 0..MaxValue]],
         taus : {NoValue} \cup {[i \in 1..n |-> t] : t \in TauSamples},
         x_hats : {<<>>},
         n_q : {0},
         j : {0},
         y_hat : {<<>>},
         mlp_calls : {<<>>}] : n \in 1..MaxBatch}

CovarsRow(f, i) == IF f.covars = NoValue THEN <<>> ELSE f.covars[i]

InitForward ==
    /\ fw \in ForwardCalls
    /\ IdleFit /\ IdleCtor /\ IdleNMQN /\ IdleInfer

\* lines 231-238: the SQR assertion, the plug-in values and the zeros
ForwardEnter ==
    /\ fw.pc = "call"
    /\ IF fw.sqr /\ fw.taus = NoValue
       THEN fw' = [fw EXCEPT !.pc = "AssertionError"]
       ELSE LET x_hats == [i \in DOMAIN fw.ivs |->
                             ExposureNetForward(fw.exposure_network,
                                 Cat(fw.ivs[i], CovarsRow(fw, i)))]
            IN  fw' = [fw EXCEPT !.pc = "loop",
                                 !.x_hats = x_hats,
                                 !.n_q = Len(x_hats[1]),
                                 !.j = 0,
                                 !.y_hat = [i \in DOMAIN fw.ivs |-> Rat(0, 1)]]
    /\ UNCHANGED <<fitVars, ctorVars, nmqnVars, inferVars>>

\* lines 240-241: one iteration of for j in range(n_q); column j of the
\* code is column j + 1 here
ForwardLoop_FirstColumn ==
    /\ fw.pc = "loop"
    /\ fw.j < fw.n_q
    /\ LET input == [i \in DOMAIN fw.ivs |->
                       Cat(<<fw.x_hats[i][1]>>, CovarsRow(fw, i))]
       IN  fw' = [fw EXCEPT
                    !.y_hat = [i \in DOMAIN fw.ivs |->
                                 RatAdd(fw.y_hat[i],
                                        Rat(Mlp(fw.mlp, input[i]), fw.n_q))],
                    !.mlp_calls = Append(@, [column |-> fw.j + 1,
                                             args |-> <<"x_hats", "covars">>,
                                             input |-> input]),
                    !.j = fw.j + 1]
    /\ UNCHANGED <<fitVars, ctorVars, nmqnVars, inferVars>>

ForwardLoop ==
    /\ fw.pc = "loop"
    /\ fw.j < fw.n_q
    /\ LET input == [i \in DOMAIN fw.ivs |->
                       Cat(<<fw.x_hats[i][fw.j + 1]>>, CovarsRow(fw, i))]
       IN  fw' = [fw EXCEPT
                    !.y_hat = [i \in DOMAIN fw.ivs |->
                                 RatAdd(fw.y_hat[i],
                                        Rat(Mlp(fw.mlp, input[i]), fw.n_q))],
                    !.mlp_calls = Append(@, [column |-> fw.j + 1,
                                             args |-> <<"x_hats", "covars">>,
                                             input |-> input]),
                    !.j = fw.j + 1]
    /\ UNCHANGED <<fitVars, ctorVars, nmqnVars, inferVars>>

\* line 243: return y_hat
ForwardReturn ==
    /\ fw.pc = "loop"
    /\ fw.j = fw.n_q
    /\ fw' = [fw EXCEPT !.pc = "returned"]
    /\ UNCHANGED <<fitVars, ctorVars, nmqnVars, inferVars>>

NextForward == ForwardEnter \/ ForwardLoop \/ ForwardReturn

SpecForward == InitForward /\ [][NextForward]_vars

\* C9: forward returns, for every sample, the equal-weight average of the
\* outcome sub-network over the plug-in values: y_hat = (1/n_q) * sum over
\* j of mlp(cat(x_hat_j, covars)) with x_hat = exposure_network(cat(ivs,
\* covars)) and n_q its number of columns; every column is used once.
C9_EqualWeightAverage ==
    fw.pc = "returned" =>
        /\ fw.n_q = fw.exposure_network.n_q
        /\ [c \in DOMAIN fw.mlp_calls |-> fw.mlp_calls[c].column]
             = [c \in 1..fw.n_q |-> c]
        /\ \A i \in DOMAIN fw.ivs :
             LET cov == CovarsRow(fw, i)
                 x_hat == ExposureNetForward(fw.exposure_network,
                                             fw.ivs[i] \o cov)
                 total == SumSeq([q \in 1..fw.n_q |->
                                     Mlp(fw.mlp, <<x_hat[q]>> \o cov)])
             IN  /\ fw.y_hat[i].den > 0
                 /\ fw.y_hat[i].num * fw.n_q = total * fw.y_hat[i].den

\* A returned call on a batch of two samples with covariates.
C9_Witness ==
    /\ fw.pc = "returned"
    /\ Len(fw.ivs) = 2
    /\ fw.covars # NoValue
    /\ fw.y_hat[1] # fw.y_hat[2]

\* C10: with SQR enabled, forward rejects a call without quantile samples
\* and hands the sampled level tau to the outcome sub-network with every
\* plug-in value and the covariates.
C10_TauFedToOutcomeNetwork ==
    fw.sqr =>
        /\ fw.taus = NoValue => fw.pc \in {"call", "AssertionError"}
        /\ \A c \in DOMAIN fw.mlp_calls :
             \E a \in DOMAIN fw.mlp_calls[c].args :
                 fw.mlp_calls[c].args[a] = "taus"

----------------------------------------------------------------------------
(* SpecEffect: one call of effect(x, covars) on a constructed estimator of *)
(* each class, resolved along the class's bases as Python resolves it.     *)

EstimatorClasses ==
    {"QuantileIVEstimator", "QuantileIVLinearEstimator", "DeLIVREstimator"}

\* The base class of each class statement.
Base(cls) ==
    CASE cls = "QuantileIVEstimator" -> "MREstimator"
      [] cls = "DeLIVREstimator" -> "MREstimator"
      [] cls = "QuantileIVLinearEstimator" -> "MREstimatorWithUncertainty"
      [] cls = "MREstimatorWithUncertainty" -> "MREstimator"
      [] cls = "MREstimator" -> "object"

\* MREstimatorWithUncertainty, the uncertainty-aware base class: it
\* implements the estimator contract, its effect reporting the (lower,
\* point, upper) triple of iv_reg_function.
MREstimatorWithUncertaintyMethods ==
    {"effect", "avg_iv_reg_function", "effect_with_prediction_interval"}

\* The methods each class body defines.
Methods(cls) ==
    CASE cls = "QuantileIVEstimator" ->
             {"__init__", "iv_reg_function", "from_results"}
      [] cls = "DeLIVREstimator" ->
             {"__init__", "iv_reg_function", "from_results"}
      [] cls = "QuantileIVLinearEstimator" ->
             {"__init__", "iv_reg_function", "avg_iv_reg_function",
              "init_PCA", "read_ivdataset", "linear_inference", "ate",
              "cate"}
      [] cls = "MREstimatorWithUncertainty" ->
             MREstimatorWithUncertaintyMethods
      [] cls = "MREstimator" -> {"effect", "interpolate"}
      [] cls = "object" -> {}

\* The class whose definition of `name` an instance of cls runs.
RECURSIVE Resolve(_, _)
Resolve(cls, name) ==
    IF name \in Methods(cls) THEN cls
    ELSE IF cls = "object" THEN None
    ELSE Resolve(Base(cls), name)

\* estimator.effect(x, covars)
Effect(estimator_cls, x, covars) ==
    LET owner == Resolve(estimator_cls, "effect")
    IN  IF owner = None THEN Raised("AttributeError")
        ELSE IF owner = "MREstimator" THEN Raised("NotImplementedError")
        ELSE [cls |-> "estimate", shape |-> "triple", x |-> x,
              covars |-> covars]

EffectCalls ==
    [cls : {"call"},
     estimator : EstimatorClasses,
     x : 0..MaxQuery,
     covars : {NoValue} \cup {Some(v) : v \in 0..MaxValue},
     result : {Absent}]

InitEffect ==
    /\ eff \in EffectCalls
    /\ reloaded = Absent /\ lin = Absent /\ lin_out = Absent
    /\ feed = Absent
    /\ IdleFit /\ IdleCtor /\ IdleNMQN /\ IdleForward

CallEffect ==
    /\ IsAbsent(eff.result)
    /\ eff' = [eff EXCEPT !.result = Effect(eff.estimator, eff.x, eff.covars)]
    /\ UNCHANGED <<fitVars, ctorVars, nmqnVars, fwVars, reloaded, lin,
                   lin_out, feed>>

NextEffect == CallEffect

SpecEffect == InitEffect /\ [][NextEffect]_vars

\* C14: effect(x, covars) on an estimator of any of the three classes
\* returns an estimate and raises no NotImplementedError.
C14_EveryEstimatorImplementsEffect ==
    ~IsAbsent(eff.result) => eff.result.cls = "estimate"

----------------------------------------------------------------------------
(* SpecLinear: a QuantileIVLinearEstimator on a dataset of three samples   *)
(* without covariables. The representation has one dimension; numbers are  *)
(* exact quotients, a quotient with denominator 0 standing for NaN/inf.    *)

RECURSIVE GCD(_, _)
GCD(a, b) == IF b = 0 THEN a ELSE GCD(b, a % b)

IsNaN(r) == r.den = 0

NaN == Rat(0, 0)

\* The quotient in lowest terms with a positive denominator.
RatNorm(r) ==
    IF IsNaN(r) THEN NaN
    ELSE LET g == GCD(Abs(r.num), Abs(r.den))
             sgn == IF r.den < 0 THEN -1 ELSE 1
         IN  Rat((sgn * r.num) \div g, (sgn * r.den) \div g)

RatInt(k) == Rat(k, 1)

\* Operands are in lowest terms; common factors are taken out before the
\* products are formed.
RatPlus(a, b) ==
    IF IsNaN(a) \/ IsNaN(b) THEN NaN
    ELSE LET g == GCD(a.den, b.den)
         IN  RatNorm(Rat(a.num * (b.den \div g) + b.num * (a.den \div g),
                         (a.den \div g) * b.den))

RatNeg(a) == Rat(-a.num, a.den)

RatMinus(a, b) == RatPlus(a, RatNeg(b))

RatTimes(a, b) ==
    IF IsNaN(a) \/ IsNaN(b) THEN NaN
    ELSE LET g1 == GCD(Abs(a.num), b.den)
             g2 == GCD(Abs(b.num), a.den)
         IN  RatNorm(Rat((a.num \div g1) * (b.num \div g2),
                         (a.den \div g2) * (b.den \div g1)))

\* a / b, a division by zero giving NaN/inf
RatOver(a, b) ==
    IF IsNaN(a) \/ IsNaN(b) \/ b.num = 0 THEN NaN
    ELSE RatNorm(Rat(a.num * b.den, a.den * b.num))

RECURSIVE RatSum(_)
RatSum(s) == IF s = <<>> THEN RatInt(0) ELSE RatPlus(s[1], RatSum(Tail(s)))

\* 2 x 2 matrices <<<<a, b>>, <<c, d>>>> of quotients
Dot(u, v) == RatPlus(RatTimes(u[1], v[1]), RatTimes(u[2], v[2]))

MatVec(A, v) == <<Dot(A[1], v), Dot(A[2], v)>>

MatMul(A, B) ==
    <<<<Dot(A[1], <<B[1][1], B[2][1]>>), Dot(A[1], <<B[1][2], B[2][2]>>)>>,
      <<Dot(A[2], <<B[1][1], B[2][1]>>), Dot(A[2], <<B[1][2], B[2][2]>>)>>>>

\* The sequence s with every element evaluated.
Tensor(s) == s \o <<>>

Square(r) == RatTimes(r, r)

Det(A) == RatMinus(RatTimes(A[1][1], A[2][2]), RatTimes(A[1][2], A[2][1]))

\* The adjugate of A over d
AdjugateOver(A, d) ==
    [cls |-> "tensor",
     value |-> <<<<RatOver(A[2][2], d), RatOver(RatNeg(A[1][2]), d)>>,
                 <<RatOver(RatNeg(A[2][1]), d), RatOver(A[1][1], d)>>>>]

\* The inverse of a matrix of determinant d, raising when d is zero
InverseGiven(A, d) ==
    IF d.num = 0 THEN Raised("LinAlgError") ELSE AdjugateOver(A, d)

\* The inverse computed without the singularity check: the adjugate over
\* the determinant.
LinalgInv_Unchecked(A) == AdjugateOver(A, Det(A))

\* torch.linalg.inv(A): raises when A is not invertible
LinalgInv(A) == InverseGiven(A, Det(A))

\* A sample: one binary instrument, the exposure and a binary outcome.
LinearSamples == [ivs : {0, 1}, x : 0..MaxExposure, y : {0, 1}]

SampleKey(smp) ==
    (smp.ivs * (MaxExposure + 1) + smp.x) * 2 + smp.y

\* The datasets of three samples. The fit sums over the samples, so one
\* order of each collection of samples is taken.
LinearDatasets ==
    {ds \in LinearSamples \X LinearSamples \X LinearSamples :
        /\ SampleKey(ds[1]) <= SampleKey(ds[2])
        /\ SampleKey(ds[2]) <= SampleKey(ds[3])}

\* The dataset with every instrument and exposure moved by one.
Shifted(ds) ==
    [i \in DOMAIN ds |-> [ds[i] EXCEPT !.x = @ + 1, !.ivs = @ + 1]]

\* self.exposure_network(_cat(ivs, covars)): the three quantiles the frozen
\* exposure network predicts for an instrument.
ExposureNetworkQuantiles(ivs) == <<ivs, ivs, ivs + 1>>

\* outcome_network.get_repr: the representation before the output layer,
\* a fixed nonlinear feature of the exposure.
GetRepr(v) == v * v + 1

\* lines 358-371: the representations of the plug-in values, each divided
\* by n_quantiles, summed over the quantiles
EtaBar(ds) ==
    Tensor([i \in DOMAIN ds |->
        LET x_hats == ExposureNetworkQuantiles(ds[i].ivs)
            n_quantiles == Len(x_hats)
        IN  RatSum([j \in 1..n_quantiles |->
                      RatOver(RatInt(GetRepr(x_hats[j])),
                              RatInt(n_quantiles))])])

\* self.pca.fit(data): the fitted projection of one-dimensional data, its
\* centring on the mean of the data (the component is the unit vector).
PCAFit(data) ==
    [cls |-> "PCA", mean |-> RatOver(RatSum(data), RatInt(Len(data)))]

\* self.pca.transform(v)
PCATransform(pca, v) == RatMinus(v, pca.mean)

\* torch.hstack((torch.ones((n, 1)), v))
WithIntercept(v) == <<RatInt(1), v>>

\* A.T @ B for matrices of n rows and 2 columns
TransposeTimes(A, B) ==
    LET entry(a, b) ==
            RatSum([i \in DOMAIN A |-> RatTimes(A[i][a], B[i][b])])
    IN  <<<<entry(1, 1), entry(1, 2)>>, <<entry(2, 1), entry(2, 2)>>>>

\* eta_bar_pca and H_pca of lines 373-391, for the projection pca
EtaBarPca(pca, ds) ==
    LET eta_bar == EtaBar(ds)
    IN  Tensor([i \in DOMAIN ds |->
                   WithIntercept(PCATransform(pca, eta_bar[i]))])

HPca(pca, ds) ==
    Tensor([i \in DOMAIN ds |->
               WithIntercept(PCATransform(pca, RatInt(GetRepr(ds[i].x))))])

\* eta_bar_pca.T @ H_pca, the matrix of the IV normal equations
NormalMatrix(ds) ==
    LET pca == PCAFit(EtaBar(ds))
    IN  TransposeTimes(EtaBarPca(pca, ds), HPca(pca, ds))

\* lines 410-438 closed over: the function iv_reg with the coefficients,
\* their covariance and the dataset whose fit it closes over.
IvRegClosure(ds, beta_IV_hat, var_beta_IV_hat) ==
    [cls |-> "iv_reg",
     beta_IV_hat |-> beta_IV_hat,
     var_beta_IV_hat |-> var_beta_IV_hat,
     fitted_on |-> ds]

\* mat_etabar.T @ mat_diag @ mat_etabar, mat_diag holding the squared
\* residuals sq
Meat(mat_etabar, sq) ==
    TransposeTimes(
        Tensor([i \in DOMAIN mat_etabar |->
                   <<RatTimes(mat_etabar[i][1], sq[i]),
                     RatTimes(mat_etabar[i][2], sq[i])>>]),
        mat_etabar)

\* ((H_pca @ beta_IV_hat - y) ** 2)
SquaredResiduals(ds, H_pca, beta_IV_hat) ==
    Tensor([i \in DOMAIN ds |->
               Square(RatMinus(Dot(H_pca[i], beta_IV_hat),
                               RatInt(ds[i].y)))])

\* lines 400-407: var_beta_IV_hat
VarBetaIVHat(mat_etabar_H_inv, mat_etabar, sq) ==
    MatMul(MatMul(mat_etabar_H_inv, Meat(mat_etabar, sq)), mat_etabar_H_inv)

\* eta_bar_pca.T @ y
TransposeTimesY(eta_bar_pca, ds) ==
    <<RatSum([i \in DOMAIN ds |->
                RatTimes(eta_bar_pca[i][1], RatInt(ds[i].y))]),
      RatSum([i \in DOMAIN ds |->
                RatTimes(eta_bar_pca[i][2], RatInt(ds[i].y))])>>

\* lines 400-440, given beta_IV_hat
WithCoefficients(ds, eta_bar_pca, H_pca, mat_etabar_H_inv, beta_IV_hat) ==
    IvRegClosure(ds, beta_IV_hat,
                 VarBetaIVHat(mat_etabar_H_inv, eta_bar_pca,
                              SquaredResiduals(ds, H_pca, beta_IV_hat)))

\* lines 394-440, given the result inv of torch.linalg.inv
WithInverse(ds, eta_bar_pca, H_pca, inv) ==
    IF IsRaised(inv) THEN inv
    ELSE WithCoefficients(ds, eta_bar_pca, H_pca, inv.value,
                          MatVec(inv.value, TransposeTimesY(eta_bar_pca, ds)))

\* lines 394-440, given eta_bar_pca and H_pca
IVRegression(ds, eta_bar_pca, H_pca) ==
    WithInverse(ds, eta_bar_pca, H_pca,
                LinalgInv(TransposeTimes(eta_bar_pca, H_pca)))

\* lines 375-440, given the projection fitted at line 374
WithProjection(ds, pca) ==
    [pca |-> pca,
     h |-> IVRegression(ds, EtaBarPca(pca, ds), HPca(pca, ds))]

\* lines 346-440: the projection self.pca is refitted in place, and the
\* function iv_reg is returned, or the exception of torch.linalg.inv.
LinearInference(ds) == WithProjection(ds, PCAFit(EtaBar(ds)))

\* torch.clip(v, 1e-200) on a tensor of the networks' type, float32: the
\* bound 1e-200 is below the smallest positive float32 and is 0 in that
\* type.
ClipAtZero(v) == IF ~IsNaN(v) /\ v.num < 0 THEN RatInt(0) ELSE v

\* The function iv_reg that linear_inference returned, called on x: it
\* reads self.pca when it is called. The standard error is kept as its
\* square.
IvRegAt(h, eta_pca) ==
    [h_hat |-> Dot(h.beta_IV_hat, eta_pca),
     se_h_hat_sq |->
         ClipAtZero(Dot(eta_pca, MatVec(h.var_beta_IV_hat, eta_pca)))]

IvReg(pca, h, x) ==
    IvRegAt(h, WithIntercept(PCATransform(pca, RatInt(GetRepr(x)))))

\* The levels alpha of a query, in percent
Alphas == {5, DefaultAlpha, 20}

\* stats.norm.ppf(p), p in thousandths, to three decimals in thousandths
NormPpf(p) ==
    CASE p = 25 -> -1960 [] p = 50 -> -1645 [] p = 100 -> -1282
      [] p = 900 -> 1282 [] p = 950 -> 1645 [] p = 975 -> 1960

\* lines 314-326: (lower, point, upper), a bound ys + z * se_ys being kept
\* as its three terms
Triple(r, alpha) ==
    [lower_ci |-> [ys |-> r.h_hat, z |-> NormPpf(5 * alpha),
                   se_sq |-> r.se_h_hat_sq],
     ys |-> r.h_hat,
     upper_ci |-> [ys |-> r.h_hat, z |-> NormPpf(1000 - 5 * alpha),
                   se_sq |-> r.se_h_hat_sq]]

IvRegFunction(l, x, alpha) == Triple(IvReg(l.pca, l.h, x), alpha)

\* MREstimatorWithUncertainty.avg_iv_reg_function(x, covars,
\* low_memory=False, alpha=0.1): without covariables to average over, the
\* triple of iv_reg_function at its level alpha.
BaseAvgIvRegFunction(l, x, alpha) == IvRegFunction(l, x, alpha)

\* lines 328-335: return super().avg_iv_reg_function(x, covars)
AvgIvRegFunction(l, x, alpha) == BaseAvgIvRegFunction(l, x, DefaultAlpha)

InitLinear ==
    /\ lin \in [cls : {"new"}, dataset : LinearDatasets]
    /\ lin_out = Absent
    /\ reloaded = Absent /\ eff = Absent /\ feed = Absent
    /\ IdleFit /\ IdleCtor /\ IdleNMQN /\ IdleForward

\* QuantileIVLinearEstimator(dataset, parent), lines 301-312: an exception
\* of linear_inference leaves no estimator.
Constructed(dataset, fit) ==
    IF IsRaised(fit.h)
    THEN [cls |-> fit.h.cls, dataset |-> dataset]
    ELSE [cls |-> "QuantileIVLinearEstimator",
          dataset |-> dataset,
          pca |-> fit.pca,
          h |-> fit.h]

NewLinearEstimator ==
    /\ lin.cls = "new"
    /\ lin' = Constructed(lin.dataset, LinearInference(lin.dataset))
    /\ UNCHANGED <<lin_out, reloaded, eff, feed>>
    /\ UNCHANGED <<fitVars, ctorVars, nmqnVars, fwVars>>

\* estimator.linear_inference(dataset) called again: self.pca is refitted
\* (line 374, before the inversion), the function is returned to the
\* caller and self.h is left as it was.
LinearInferenceAgain ==
    /\ lin.cls = "QuantileIVLinearEstimator"
    /\ \E ds \in {lin.dataset, Shifted(lin.dataset)} :
         \E fit \in {LinearInference(ds)} :
             /\ lin' = [lin EXCEPT !.pca = fit.pca]
             /\ lin_out' = [cls |-> "linear_inference", dataset |-> ds,
                            result |-> fit.h]
    /\ UNCHANGED <<reloaded, eff, feed>>
    /\ UNCHANGED <<fitVars, ctorVars, nmqnVars, fwVars>>

\* estimator.iv_reg_function(x, None, alpha)
QueryIvRegFunction ==
    /\ lin.cls = "QuantileIVLinearEstimator"
    /\ \E x \in 0..MaxExposure, alpha \in Alphas :
         lin_out' = [cls |-> "iv_reg_function", x |-> x, alpha |-> alpha,
                     result |-> IvRegFunction(lin, x, alpha)]
    /\ UNCHANGED <<lin, reloaded, eff, feed>>
    /\ UNCHANGED <<fitVars, ctorVars, nmqnVars, fwVars>>

\* estimator.avg_iv_reg_function(x, None, False, alpha)
QueryAvgIvRegFunction ==
    /\ lin.cls = "QuantileIVLinearEstimator"
    /\ \E x \in 0..MaxExposure, alpha \in Alphas :
         lin_out' = [cls |-> "avg_iv_reg_function", x |-> x,
                     alpha |-> alpha,
                     result |-> AvgIvRegFunction(lin, x, alpha)]
    /\ UNCHANGED <<lin, reloaded, eff, feed>>
    /\ UNCHANGED <<fitVars, ctorVars, nmqnVars, fwVars>>

NextLinear ==
    \/ NewLinearEstimator
    \/ LinearInferenceAgain
    \/ QueryIvRegFunction
    \/ QueryAvgIvRegFunction

SpecLinear == InitLinear /\ [][NextLinear]_vars

\* The matrix of the IV normal equations of a dataset is singular.
Singular(ds) == Det(NormalMatrix(ds)).num = 0

HasNaN(triple) ==
    \/ IsNaN(triple.ys)
    \/ IsNaN(triple.lower_ci.se_sq)
    \/ IsNaN(triple.upper_ci.se_sq)

C18_LinearInferenceStateImmutable ==
    lin.cls = "QuantileIVLinearEstimator" =>
        /\ lin.pca = PCAFit(EtaBar(lin.h.fitted_on))
        /\ lin.h = LinearInference(lin.h.fitted_on).h
        /\ (~IsAbsent(lin_out) /\ lin_out.cls = "iv_reg_function") =>
              lin_out.result.ys =
                  IvReg(PCAFit(EtaBar(lin.h.fitted_on)), lin.h,
                        lin_out.x).h_hat

\* C20: the averaged variant computes its bounds at the alpha it is given,
\* as iv_reg_function does.
C20_AvgUsesRequestedAlpha ==
    (~IsAbsent(lin_out) /\ lin_out.cls = "avg_iv_reg_function") =>
        /\ lin_out.result.lower_ci.z = NormPpf(5 * lin_out.alpha)
        /\ lin_out.result.upper_ci.z = NormPpf(1000 - 5 * lin_out.alpha)
        /\ lin_out.result = IvRegFunction(lin, lin_out.x, lin_out.alpha)

\* C21: a query through iv_reg_function returns (lower, point, upper) around
\* one point estimate with one standard error, lower at a negative and
\* upper at the opposite positive multiple of it, and the standard error is
\* strictly positive.
C21_TripleOrderedWithPositiveSe ==
    (~IsAbsent(lin_out) /\ lin_out.cls = "iv_reg_function") =>
        /\ DOMAIN lin_out.result = {"lower_ci", "ys", "upper_ci"}
        /\ lin_out.result.lower_ci.ys = lin_out.result.ys
        /\ lin_out.result.upper_ci.ys = lin_out.result.ys
        /\ lin_out.result.lower_ci.se_sq = lin_out.result.upper_ci.se_sq
        /\ lin_out.result.lower_ci.z < 0
        /\ lin_out.result.upper_ci.z = -lin_out.result.lower_ci.z
        /\ ~IsNaN(lin_out.result.lower_ci.se_sq)
        /\ lin_out.result.lower_ci.se_sq.num > 0

----------------------------------------------------------------------------
(* SpecInput: the places that evaluate the exposure network, each on a     *)
(* batch of a dataset. A tensor is its shape and the labels of its         *)
(* columns; the instruments and the covariables of a batch have one row    *)
(* per sample and may have no column.                                      *)

TensorOf(kind, n, k) ==
    [cls |-> "tensor", shape |-> <<n, k>>,
     columns |-> [j \in 1..k |-> <<kind, j>>]]

RECURSIVE Product(_)
Product(s) == IF s = <<>> THEN 1 ELSE s[1] * Product(Tail(s))

\* tens.numel()
Numel(tens) == Product(tens.shape)

\* covars.unsqueeze(-1)
Unsqueeze(tens) == [tens EXCEPT !.shape = Append(@, 1)]

\* [tens for tens in tensors if tens.numel() > 0]
NonEmpty(tensors) == SelectSeq(tensors, LAMBDA tens : Numel(tens) > 0)

RECURSIVE AllColumns(_)
AllColumns(tensors) ==
    IF tensors = <<>> THEN <<>>
    ELSE tensors[1].columns \o AllColumns(Tail(tensors))

\* torch.hstack(tensors): the tensors side by side along dimension 1. An
\* empty list, or tensors that differ in their number of dimensions or in
\* another dimension, raise.
TorchHstack(tensors) ==
    IF tensors = <<>> THEN Raised("RuntimeError")
    ELSE IF \E i \in DOMAIN tensors :
                \/ Len(tensors[i].shape) # Len(tensors[1].shape)
                \/ \E d \in DOMAIN tensors[i].shape :
                      d # 2 /\ tensors[i].shape[d] # tensors[1].shape[d]
    THEN Raised("RuntimeError")
    ELSE [cls |-> "tensor",
          shape |-> [tensors[1].shape EXCEPT
                       ![2] = Len(AllColumns(tensors))],
          columns |-> AllColumns(tensors)]

\* _cat (utils) on tensors: None and empty tensors are left out, the others
\* go to torch.hstack.
CatTensors(tensors) ==
    TorchHstack(NonEmpty(SelectSeq(tensors, LAMBDA tens : ~IsAbsent(tens))))

\* A batch (x, y, ivs, covars) of a dataset
Batches ==
    {[cls |-> "batch", ivs |-> TensorOf("ivs", n, k),
      covars |-> TensorOf("covars", n, c)] :
        n \in 1..MaxBatch, k \in 0..MaxColumns, c \in 0..MaxColumns}

Fed(site, ivs, covars, input) ==
    [cls |-> site, ivs |-> ivs, covars |-> covars, input |-> input]

InitInput ==
    /\ feed \in Batches
    /\ reloaded = Absent /\ lin = Absent /\ lin_out = Absent /\ eff = Absent
    /\ IdleFit /\ IdleCtor /\ IdleNMQN /\ IdleForward

\* ExposureQuantileMLP._step, lines 98-107
QuantileMLPStep ==
    /\ feed.cls = "batch"
    /\ feed' = Fed("ExposureQuantileMLP._step", feed.ivs, feed.covars,
                   TorchHstack(NonEmpty(<<feed.ivs, feed.covars>>)))
    /\ UNCHANGED <<reloaded, lin, lin_out, eff>>
    /\ UNCHANGED <<fitVars, ctorVars, nmqnVars, fwVars>>

\* ExposureNMQN._step, lines 178-193
NMQNStep ==
    /\ feed.cls = "batch"
    /\ feed' = Fed("ExposureNMQN._step", feed.ivs, feed.covars,
                   TorchHstack(NonEmpty(<<feed.ivs, feed.covars>>)))
    /\ UNCHANGED <<reloaded, lin, lin_out, eff>>
    /\ UNCHANGED <<fitVars, ctorVars, nmqnVars, fwVars>>

\* OutcomeMLP.forward(ivs, covars), line 234: covars may be None
OutcomeForwardInput ==
    /\ feed.cls = "batch"
    /\ \E covars \in {feed.covars, Absent} :
         feed' = Fed("OutcomeMLP.forward", feed.ivs, covars,
                     CatTensors(<<feed.ivs, covars>>))
    /\ UNCHANGED <<reloaded, lin, lin_out, eff>>
    /\ UNCHANGED <<fitVars, ctorVars, nmqnVars, fwVars>>

\* QuantileIVLinearEstimator.linear_inference, lines 350-354: the
\* covariables of the full batch are unsqueezed before _cat
LinearInferenceInput ==
    /\ feed.cls = "batch"
    /\ feed' = Fed("linear_inference", feed.ivs, feed.covars,
                   CatTensors(<<feed.ivs, Unsqueeze(feed.covars)>>))
    /\ UNCHANGED <<reloaded, lin, lin_out, eff>>
    /\ UNCHANGED <<fitVars, ctorVars, nmqnVars, fwVars>>

\* plot_exposure_model, lines 764-770
PlotExposureInput ==
    /\ feed.cls = "batch"
    /\ feed' = Fed("plot_exposure_model", feed.ivs, feed.covars,
                   TorchHstack(NonEmpty(<<feed.ivs, feed.covars>>)))
    /\ UNCHANGED <<reloaded, lin, lin_out, eff>>
    /\ UNCHANGED <<fitVars, ctorVars, nmqnVars, fwVars>>

NextInput ==
    \/ QuantileMLPStep
    \/ NMQNStep
    \/ OutcomeForwardInput
    \/ LinearInferenceInput
    \/ PlotExposureInput

SpecInput == InitInput /\ [][NextInput]_vars

\* The columns of a tensor of a batch, None having none.
ColumnsOf(tens) == IF IsAbsent(tens) THEN <<>> ELSE tens.columns

\* C22: at each place, on a batch with an instrument or a covariable, the
\* exposure network is fed one row per sample holding the instruments'
\* columns followed by the covariables' columns.
C22_InstrumentsThenCovariables ==
    (feed.cls \notin {None, "batch"}
     /\ ColumnsOf(feed.ivs) \o ColumnsOf(feed.covars) # <<>>) =>
        /\ feed.input.cls = "tensor"
        /\ feed.input.columns = ColumnsOf(feed.ivs) \o ColumnsOf(feed.covars)
        /\ feed.input.shape =
               <<feed.ivs.shape[1], Len(feed.input.columns)>>

====
